---- MODULE Spec2Model ----
(***************************************************************************)
(* A model of dashboard.py: the GX Activations dashboard, a Streamlit      *)
(* script that loads a key/value table from a worksheet, lets the operator *)
(* stage edits in widgets, and saves the merged table back.                *)
(*                                                                         *)
(* Numbers.  A Python value is a record [t, n, s]: an int n, a float whose *)
(* value is n hundredths, or a str s.  Every float the program meets here  *)
(* has at most two decimals (cells, DEFAULT_DATA, round(.., 2)), so        *)
(* hundredths are closed under the program's arithmetic.  A worksheet cell *)
(* is a string, modelled by its shape [k, n, s]: an integer literal, a     *)
(* literal with a decimal point (n hundredths), or any other text s.       *)
(*                                                                         *)
(* Streamlit.  Every interaction reruns main() from the top.  A widget     *)
(* keeps its value across reruns while it is created with the same         *)
(* arguments; created with other arguments (another value=, another grid   *)
(* input) it is a new widget that starts from its default.  This is the    *)
(* behaviour of the Streamlit releases that offer both st.cache_data and   *)
(* st.experimental_rerun.                                                  *)
(***************************************************************************)
EXTENDS Integers, Sequences, FiniteSets, TLC

\* ------------------------------------------------------------------ bounds
MaxEdits == 1      \* operator edits in one behaviour
MaxSaves == 1      \* presses of Save in one behaviour
MaxRaw4 == 7       \* largest raw value of a four-member group (NormSpec)
MaxRaw6 == 2       \* largest raw value of a six-member group (NormSpec)

\* --------------------------------------------------------- program constants
CacheTtl == 60           \* @st.cache_data(ttl=60)
RefreshAfter == 30       \* time.time() - last > 30
Target == 100            \* the total a group is normalised to

\* -------------------------------------------------------------- the clock
\* The program reads the clock only to compare an age with 30 s or 60 s, so
\* the model keeps ages (of the cache entry, of last_refresh) and lets them
\* saturate above both thresholds.
TickLen == 61            \* seconds one clock advance adds
AgeCap == CacheTtl + 1
Older(age) == IF age + TickLen > AgeCap THEN AgeCap ELSE age + TickLen

\* ------------------------------------------------------------------ values
IntV(n) == [t |-> "int", n |-> n, s |-> ""]
FloatV(h) == [t |-> "float", n |-> h, s |-> ""]
StrV(s) == [t |-> "str", n |-> 0, s |-> s]

IntCell(n) == [k |-> "int", n |-> n, s |-> ""]
DecCell(h) == [k |-> "dec", n |-> h, s |-> ""]
TextCell(s) == [k |-> "text", n |-> 0, s |-> s]

\* The value of a numeric Python value, in hundredths.
Hundredths(v) == IF v.t = "int" THEN v.n * 100 ELSE v.n

\* Python's == on two numbers (28 == 28.0), and on a number and a str (False).
PyEq(a, b) ==
    IF a.t = "str" \/ b.t = "str" THEN a = b ELSE Hundredths(a) = Hundredths(b)

\* float(x) of a number, in hundredths.
ToFloat(v) == Hundredths(v)

\* int(x) of a number given in hundredths: truncation towards zero.
TruncInt(h) == IF h >= 0 THEN h \div 100 ELSE -((-h) \div 100)

\* int(float(x)), as every number_input computes its value= argument.
IntOfFloat(v) == TruncInt(ToFloat(v))

\* str(v), the cell save_data_to_sheet writes.
PyStr(v) ==
    CASE v.t = "int" -> IntCell(v.n)
      [] v.t = "float" -> DecCell(v.n)
      [] OTHER -> TextCell(v.s)

\* ---------------------------------------------------------------- the keys
KeyOrder ==
    << "hcp_educated", "hcp_family", "hcp_internal", "hcp_general",
       "hcp_md_do", "hcp_np_pa",
       "confidence_diagnosing", "confidence_treating", "confidence_managing",
       "intent_to_test",
       "attendees_educated",
       "demo_black", "demo_hispanic", "demo_white", "demo_other",
       "age_55_plus", "age_35_54", "age_18_34",
       "gender_male",
       "aware_ldlc", "understand_risk", "intent_test", "intent_followup",
       "ldlc_0_54", "ldlc_55_70", "ldlc_70_99",
       "ldlc_100_139", "ldlc_140_189", "ldlc_190_plus" >>

ExtraKey == "notes"      \* a key of the worksheet that DEFAULT_DATA lacks

\* Insertion order of every dict of the model: DEFAULT_DATA's keys, then the
\* worksheet's other keys.
DictOrder == Append(KeyOrder, ExtraKey)

DefaultKeys == {KeyOrder[i] : i \in 1..Len(KeyOrder)}

DEFAULT_DATA ==
    [k \in DefaultKeys |->
        CASE k = "hcp_educated" -> IntV(28)
          [] k = "hcp_family" -> IntV(19)
          [] k = "hcp_internal" -> IntV(18)
          [] k = "hcp_general" -> IntV(28)
          [] k = "hcp_md_do" -> IntV(75)
          [] k = "hcp_np_pa" -> IntV(25)
          [] k = "confidence_diagnosing" -> IntV(85)
          [] k = "confidence_treating" -> IntV(78)
          [] k = "confidence_managing" -> IntV(82)
          [] k = "intent_to_test" -> IntV(90)
          [] k = "attendees_educated" -> IntV(98)
          [] k = "demo_black" -> IntV(55)
          [] k = "demo_hispanic" -> IntV(25)
          [] k = "demo_white" -> IntV(17)
          [] k = "demo_other" -> IntV(3)
          [] k = "age_55_plus" -> IntV(45)
          [] k = "age_35_54" -> IntV(28)
          [] k = "age_18_34" -> IntV(27)
          [] k = "gender_male" -> IntV(75)
          [] k = "aware_ldlc" -> IntV(88)
          [] k = "understand_risk" -> IntV(84)
          [] k = "intent_test" -> IntV(91)
          [] k = "intent_followup" -> IntV(79)
          [] k = "ldlc_0_54" -> FloatV(54)
          [] k = "ldlc_55_70" -> FloatV(70)
          [] k = "ldlc_70_99" -> FloatV(99)
          [] k = "ldlc_100_139" -> FloatV(139)
          [] k = "ldlc_140_189" -> FloatV(189)
          [] OTHER -> FloatV(190)]

\* dict.get(key, 0)
Get(d, k) == IF k \in DOMAIN d THEN d[k] ELSE IntV(0)

\* ------------------------------------------------------------ normalisation
RECURSIVE SumSeq(_)
SumSeq(s) == IF s = << >> THEN 0 ELSE Head(s) + SumSeq(Tail(s))

\* A rounding that drops the fraction (a mutant of RoundHalfEven).
RoundDown(num, den) == num \div den

\* round() of num/den to an integer, ties to even, as numpy rounds.
RoundHalfEven(num, den) ==
    LET q == num \div den
        r == num % den
    IN  IF 2 * r < den THEN q
        ELSE IF 2 * r > den THEN q + 1
        ELSE IF q % 2 = 0 THEN q ELSE q + 1

\* (col / total * 100).round(p) of raw values given in units of 1/unit, the
\* result in units of 10^-p = 1/prec; the column is left alone when its total
\* is 100 or is not positive.
NormalizeColumn(raw, unit, prec) ==
    LET total == SumSeq(raw)
    IN  IF total # Target * unit /\ total > 0
        THEN [i \in 1..Len(raw) |-> RoundHalfEven(raw[i] * Target * prec, total)]
        ELSE [i \in 1..Len(raw) |-> (raw[i] * prec) \div unit]

\* ------------------------------------------------------------ the worksheet
\* A worksheet is the sequence of its rows; a row is a key and a value cell.
HeaderRow == [key |-> "key", val |-> TextCell("value")]

EmptyDict == [k \in {} |-> IntV(0)]

\* d.update(e)
Update(d, e) ==
    [k \in DOMAIN d \cup DOMAIN e |-> IF k \in DOMAIN e THEN e[k] ELSE d[k]]

\* A parse that reads every numeric cell with int() (a mutant of ParseCell).
ParseCellAsInt(c) ==
    IF c.k = "text" THEN StrV(c.s)
    ELSE IF c.k = "dec" THEN IntV(TruncInt(c.n))
    ELSE IntV(c.n)

\* Lines 119-129: the value a cell is read as.
ParseCell(c) ==
    IF c.k = "text" /\ c.s = "" THEN StrV("")
    ELSE IF c.k = "dec" THEN FloatV(c.n)          \* "." in val: float(val)
    ELSE IF c.k = "int" THEN IntV(c.n)            \* int(val)
    ELSE StrV(c.s)                                \* except: parsed = val

\* Lines 110-130: the dict built from the rows below the header; a later row
\* of a key replaces an earlier one, a row with an empty key is skipped.
RowsToDict(rows) ==
    LET idx == {i \in 2..Len(rows) : rows[i].key # ""}
        keys == {rows[i].key : i \in idx}
        last(k) == CHOOSE i \in idx :
                       /\ rows[i].key = k
                       /\ \A j \in idx : rows[j].key = k => j <= i
    IN  [k \in keys |-> ParseCell(rows[last(k)].val)]

\* What a backend call of a load can end in, and of a save.
LoadFailures == {"no_credentials", "open_failed", "worksheet_failed", "read_failed"}
LoadOutcomes == {"ok"} \cup LoadFailures
SaveFailures ==
    {"no_credentials", "open_failed", "worksheet_failed", "clear_failed", "update_failed"}
SaveOutcomes == {"ok"} \cup SaveFailures

\* get_gspread_client: raises when neither source yields credentials.
get_gspread_client(outcome) == outcome # "no_credentials"

\* A load whose except branch returns an empty dict (a mutant of
\* load_data_from_sheet).
load_data_or_nothing(ws, outcome) ==
    IF ~get_gspread_client(outcome) \/ outcome \in LoadFailures
    THEN EmptyDict
    ELSE IF Len(ws) < 2 THEN DEFAULT_DATA
    ELSE Update(DEFAULT_DATA, RowsToDict(ws))

\* The body of load_data_from_sheet, run against the worksheet ws.
load_data_from_sheet(ws, outcome) ==
    IF ~get_gspread_client(outcome) \/ outcome \in LoadFailures
    THEN DEFAULT_DATA                              \* except: DEFAULT_DATA.copy()
    ELSE IF Len(ws) < 2 THEN DEFAULT_DATA
    ELSE Update(DEFAULT_DATA, RowsToDict(ws))

\* Lines 150-152: the rows a save writes, in the dict's order.
RowsOf(d) ==
    LET ks == SelectSeq(DictOrder, LAMBDA k : k \in DOMAIN d)
    IN  <<HeaderRow>> \o [i \in 1..Len(ks) |-> [key |-> ks[i], val |-> PyStr(d[ks[i]])]]

\* save_data_to_sheet: the worksheet it leaves, what it returns, and whether
\* it reached load_data_from_sheet.clear().
save_data_to_sheet(ws, d, outcome) ==
    IF ~get_gspread_client(outcome) \/ outcome \in {"open_failed", "worksheet_failed"}
    THEN [ws |-> ws, ok |-> FALSE, cleared |-> FALSE]
    ELSE IF outcome = "clear_failed"
    THEN [ws |-> ws, ok |-> FALSE, cleared |-> FALSE]
    ELSE IF outcome = "update_failed"          \* ws.clear() done, ws.update raised
    THEN [ws |-> << >>, ok |-> FALSE, cleared |-> FALSE]
    ELSE [ws |-> RowsOf(d), ok |-> TRUE, cleared |-> TRUE]

\* ---------------------------------------------------------------- the cache
NoCache == [full |-> FALSE, age |-> 0, data |-> EmptyDict]

CacheHit(c) == c.full /\ c.age < CacheTtl

\* -------------------------------------------------------------- the widgets
\* The number inputs in rendering order: the session key of the widget (key=)
\* and the key of the dataset its value= is read from.
NumberInputs ==
    << [sk |-> "hcp_educated_input", dk |-> "hcp_educated"],
       [sk |-> "inp_hcp_family", dk |-> "hcp_family"],
       [sk |-> "inp_hcp_internal", dk |-> "hcp_internal"],
       [sk |-> "inp_hcp_general", dk |-> "hcp_general"],
       [sk |-> "inp_attendees", dk |-> "attendees_educated"],
       [sk |-> "inp_demo_black", dk |-> "demo_black"],
       [sk |-> "inp_demo_hispanic", dk |-> "demo_hispanic"],
       [sk |-> "inp_demo_white", dk |-> "demo_white"],
       [sk |-> "inp_demo_other", dk |-> "demo_other"],
       [sk |-> "inp_age_55_plus", dk |-> "age_55_plus"],
       [sk |-> "inp_age_35_54", dk |-> "age_35_54"],
       [sk |-> "inp_age_18_34", dk |-> "age_18_34"],
       [sk |-> "inp_gender_male", dk |-> "gender_male"],
       [sk |-> "inp_aware_ldlc", dk |-> "aware_ldlc"],
       [sk |-> "inp_understand_risk", dk |-> "understand_risk"],
       [sk |-> "inp_intent_test", dk |-> "intent_test"],
       [sk |-> "inp_intent_followup", dk |-> "intent_followup"] >>

InputKeys == {NumberInputs[i].sk : i \in 1..Len(NumberInputs)}

\* The dataset key a number input shows.
DataKeyOf(sk) ==
    NumberInputs[CHOOSE i \in 1..Len(NumberInputs) : NumberInputs[i].sk = sk].dk

\* The rows of the LDL-c grid (range_to_key), top to bottom.
LdlcKeys ==
    << "ldlc_0_54", "ldlc_55_70", "ldlc_70_99",
       "ldlc_100_139", "ldlc_140_189", "ldlc_190_plus" >>

\* f"inp_{k}"
SessionKey(k) ==
    CASE k = "hcp_educated" -> "inp_hcp_educated"
      [] k = "hcp_family" -> "inp_hcp_family"
      [] k = "hcp_internal" -> "inp_hcp_internal"
      [] k = "hcp_general" -> "inp_hcp_general"
      [] k = "hcp_md_do" -> "inp_hcp_md_do"
      [] k = "hcp_np_pa" -> "inp_hcp_np_pa"
      [] k = "confidence_diagnosing" -> "inp_confidence_diagnosing"
      [] k = "confidence_treating" -> "inp_confidence_treating"
      [] k = "confidence_managing" -> "inp_confidence_managing"
      [] k = "intent_to_test" -> "inp_intent_to_test"
      [] k = "attendees_educated" -> "inp_attendees_educated"
      [] k = "demo_black" -> "inp_demo_black"
      [] k = "demo_hispanic" -> "inp_demo_hispanic"
      [] k = "demo_white" -> "inp_demo_white"
      [] k = "demo_other" -> "inp_demo_other"
      [] k = "age_55_plus" -> "inp_age_55_plus"
      [] k = "age_35_54" -> "inp_age_35_54"
      [] k = "age_18_34" -> "inp_age_18_34"
      [] k = "gender_male" -> "inp_gender_male"
      [] k = "aware_ldlc" -> "inp_aware_ldlc"
      [] k = "understand_risk" -> "inp_understand_risk"
      [] k = "intent_test" -> "inp_intent_test"
      [] k = "intent_followup" -> "inp_intent_followup"
      [] k = "ldlc_0_54" -> "inp_ldlc_0_54"
      [] k = "ldlc_55_70" -> "inp_ldlc_55_70"
      [] k = "ldlc_70_99" -> "inp_ldlc_70_99"
      [] k = "ldlc_100_139" -> "inp_ldlc_100_139"
      [] k = "ldlc_140_189" -> "inp_ldlc_140_189"
      [] k = "ldlc_190_plus" -> "inp_ldlc_190_plus"
      [] OTHER -> "inp_notes"

LdlcSessionKeys == {SessionKey(LdlcKeys[i]) : i \in 1..Len(LdlcKeys)}

\* The row of the grid a session key inp_ldlc_* is written from.
LdlcRowOf(sk) == CHOOSE i \in 1..Len(LdlcKeys) : SessionKey(LdlcKeys[i]) = sk

\* The metric a session entry stages a value for.
MetricOf(sk) == IF sk \in InputKeys THEN DataKeyOf(sk) ELSE LdlcKeys[LdlcRowOf(sk)]

\* ---------------------------------------------------------------- rendering
\* st.number_input(..., value=val, key=sk): the widget keeps the value it
\* holds when it was created with the same value= in the last run, and starts
\* from val otherwise.
number_input(sess, args, sk, val) ==
    IF sk \in DOMAIN sess /\ sk \in DOMAIN args /\ args[sk] = val
    THEN sess[sk]
    ELSE IntV(val)

\* The render_*_section functions, lines 179-284: the session entries of the
\* number inputs, the value= each was created with, and whether one of them
\* set st.session_state.modified.
RenderInputs(d, sess, args) ==
    LET val(sk) == IntOfFloat(Get(d, DataKeyOf(sk)))
        now_(sk) == number_input(sess, args, sk, val(sk))
    IN  [session |-> [sk \in InputKeys |-> now_(sk)],
         args |-> [sk \in InputKeys |-> val(sk)],
         touched |-> \E sk \in InputKeys : ~PyEq(now_(sk), IntV(val(sk)))]

\* Lines 289-297: the matrix handed to the grid, in hundredths.
LdlcMatrix(d) == [i \in 1..Len(LdlcKeys) |-> ToFloat(Get(d, LdlcKeys[i]))]

NoGrid == [live |-> FALSE, inp |-> << >>, out |-> << >>]

\* AgGrid(matrix, editable=True): the grid returns what it holds (the matrix
\* with the operator's edits) while it is created with the same matrix.
AgGrid(g, matrix) ==
    IF g.live /\ g.inp = matrix THEN g ELSE [live |-> TRUE, inp |-> matrix, out |-> matrix]

\* render_ldlc_matrix, lines 307-320: the values stored under inp_ldlc_*.
RenderLdlc(d, g) ==
    LET gb == AgGrid(g, LdlcMatrix(d))
        edited == NormalizeColumn(gb.out, 100, 100)
    IN  [grid |-> gb,
         session |-> [sk \in LdlcSessionKeys |-> FloatV(edited[LdlcRowOf(sk)])]]

\* collect_changes_into_dict(original), lines 328-352.
collect_changes_into_dict(original, sess) ==
    LET cast(k) ==
            LET val == sess[SessionKey(k)]
            IN  IF original[k].t = "int" THEN IntV(TruncInt(Hundredths(val)))
                ELSE IF original[k].t = "float" THEN FloatV(Hundredths(val))
                ELSE val
        out == [k \in DOMAIN original |->
                   IF SessionKey(k) \in DOMAIN sess THEN cast(k) ELSE original[k]]
    IN  IF "hcp_educated_input" \in DOMAIN sess
        THEN [out EXCEPT !["hcp_educated"] =
                 IntV(TruncInt(Hundredths(sess["hcp_educated_input"])))]
        ELSE out

\* ------------------------------------------------------------------ state
VARIABLES
    sheet,            \* the worksheet: the persisted key/value table
    cache,            \* the st.cache_data entry of load_data_from_sheet
    session,          \* st.session_state: the inp_* and hcp_educated_input entries
    wargs,            \* the value= every number input was last created with
    grid,             \* the AgGrid component: its input matrix and what it holds
    modified,         \* st.session_state.modified
    sinceRefresh,     \* time.time() - st.session_state.get("last_refresh", 0)
    auto_refresh,     \* the "Auto-refresh 30s" checkbox
    warning,          \* whether the last finished run showed the unsaved-changes warning
    data,             \* main's local data: the snapshot of the current run
    pc,               \* "rerun": a run is due; "idle"; "save", "reset": a button block is due
    op,               \* the last step taken
    loadFailed,       \* the load that gave the last run its snapshot failed
    saveRes,          \* what the last save_data_to_sheet returned: "ok", "failed"
    submitted,        \* the dataset the last Save handed to save_data_to_sheet; a
                      \* saved one is kept through the run that follows the Save
    sheetBefore,      \* the worksheet before the last save_data_to_sheet
    edits,            \* operator edits so far
    saves,            \* presses of Save so far
    pend,             \* the values the operator staged and has neither saved nor reset
    refreshedPending, \* an auto-refresh ran while pend was not empty
    discarded,        \* the staged values the last Reset discarded, until the next edit
    grp,              \* NormSpec: the group normalised
    raw,              \* NormSpec: its raw values
    normed            \* NormSpec: its normalised values, << >> before the step

vars ==
    << sheet, cache, session, wargs, grid, modified, sinceRefresh, auto_refresh,
       warning, data, pc, op, loadFailed, saveRes, submitted, sheetBefore, edits, saves,
       pend, refreshedPending, discarded, grp, raw, normed >>

normVars == << grp, raw, normed >>

\* ------------------------------------------------------- initial worksheets
FilledSheet ==
    << HeaderRow,
       [key |-> "hcp_educated", val |-> IntCell(30)],
       [key |-> "hcp_family", val |-> DecCell(2850)],
       [key |-> "demo_white", val |-> IntCell(20)],
       [key |-> "ldlc_0_54", val |-> DecCell(1000)],
       [key |-> "ldlc_55_70", val |-> DecCell(1000)],
       [key |-> "ldlc_70_99", val |-> DecCell(2000)],
       [key |-> "ldlc_100_139", val |-> DecCell(2000)],
       [key |-> "ldlc_140_189", val |-> DecCell(2000)],
       [key |-> "ldlc_190_plus", val |-> DecCell(2000)],
       [key |-> "", val |-> IntCell(7)],
       [key |-> "hcp_educated", val |-> IntCell(31)],
       [key |-> ExtraKey, val |-> TextCell("draft")] >>

InitSheets == { << >>, FilledSheet }

\* What the operator may type into a number input, and into a grid cell
\* (hundredths).
EditKeys == {"inp_attendees", "inp_demo_white"}
EditValues == {50}
GridRows == {1}
GridValues == {500}

Init ==
    /\ sheet \in InitSheets
    /\ cache = NoCache
    /\ session = EmptyDict
    /\ wargs = [k \in {} |-> 0]
    /\ grid = NoGrid
    /\ modified = FALSE
    /\ sinceRefresh = AgeCap
    /\ auto_refresh = TRUE
    /\ warning = FALSE
    /\ data = EmptyDict
    /\ pc = "rerun"
    /\ op = "start"
    /\ loadFailed = FALSE
    /\ saveRes = "none"
    /\ submitted = EmptyDict
    /\ sheetBefore = << >>
    /\ edits = 0
    /\ saves = 0
    /\ pend = EmptyDict
    /\ refreshedPending = FALSE
    /\ discarded = EmptyDict
    /\ grp = "none"
    /\ raw = << >>
    /\ normed = << >>

\* ------------------------------------------------------------------ a run
\* One call of the cached load_data_from_sheet: served from the cache while
\* the entry is younger than the ttl, else the body runs and its backend calls
\* end in any of the ways they can.  Each result says whether the body failed
\* and gives the returned dataset.
CachedLoad(c) ==
    IF CacheHit(c)
    THEN {[failed |-> FALSE, data |-> c.data]}
    ELSE {[failed |-> o \in LoadFailures, data |-> load_data_from_sheet(sheet, o)] :
             o \in LoadOutcomes}

\* Lines 360 and 371-378: the cached load l1, then the auto-refresh, whose
\* load l2 replaces it.
ScriptTop(l1, l2, auto) ==
    LET refresh == auto /\ sinceRefresh > RefreshAfter
        l == IF refresh THEN l2 ELSE l1
    IN  [data |-> l.data,
         failed |-> l.failed,
         cache |-> IF refresh \/ ~CacheHit(cache)
                   THEN [full |-> TRUE, age |-> 0, data |-> l.data] ELSE cache,
         since |-> IF refresh THEN 0 ELSE sinceRefresh,
         refreshed |-> refresh]

\* Lines 384-393: every section rendered against the snapshot d.
Render(d, sess, g) ==
    LET ri == RenderInputs(d, sess, wargs)
        rl == RenderLdlc(d, g)
    IN  [session |-> ri.session @@ rl.session,
         args |-> ri.args,
         grid |-> rl.grid,
         touched |-> ri.touched]

\* The staged values still pending when a run starts: a successful Save
\* consumed them.
PendBase == IF op = "save" /\ saveRes = "ok" THEN EmptyDict ELSE pend

\* One run of main() down to line 394, started by an interaction that left
\* the widgets holding sess, g and auto; typed are the session keys whose
\* value the operator has just entered.
Script(name, sess, g, auto, nextpc, typed) ==
    \E l1 \in CachedLoad(cache) :
    \E l2 \in (IF auto /\ sinceRefresh > RefreshAfter THEN CachedLoad(NoCache) ELSE {l1}) :
    \E top \in {ScriptTop(l1, l2, auto)} :
    \E r \in {Render(top.data, sess, g)} :
    \E want \in {NormalizeColumn(g.out, 100, 100)} :
        LET staged(sk) == IF sk \in InputKeys THEN sess[sk]
                          ELSE FloatV(want[LdlcRowOf(sk)])
            base == PendBase
        IN  /\ data' = top.data
            /\ cache' = top.cache
            /\ sinceRefresh' = top.since
            /\ session' = r.session
            /\ wargs' = r.args
            /\ grid' = r.grid
            /\ modified' = (modified \/ r.touched)
            /\ auto_refresh' = auto
            /\ pc' = nextpc
            /\ warning' = IF nextpc = "idle" THEN modified' ELSE warning
            /\ op' = name
            /\ loadFailed' = top.failed
            /\ pend' = [sk \in DOMAIN base \cup typed |->
                           IF sk \in typed THEN staged(sk) ELSE base[sk]]
            /\ refreshedPending' =
                   /\ DOMAIN pend' # {}
                   /\ (top.refreshed \/ (refreshedPending /\ DOMAIN base # {}))
            /\ discarded' = IF typed = {} THEN discarded ELSE EmptyDict
            /\ saveRes' = "none"
            /\ submitted' = IF op = "save" /\ saveRes = "ok" THEN submitted ELSE EmptyDict
            /\ sheetBefore' = << >>
            /\ UNCHANGED sheet

\* The first run of a session, and the run st.experimental_rerun() starts.
Rerun ==
    /\ pc = "rerun"
    /\ Script("run", session, grid, auto_refresh, "idle", {})
    /\ UNCHANGED << edits, saves, normVars >>

\* The operator types v into the number input sk.
EditNumber(sk, v) ==
    /\ pc = "idle"
    /\ edits < MaxEdits
    /\ sk \in DOMAIN session
    /\ session[sk] # IntV(v)
    /\ Script("run", [session EXCEPT ![sk] = IntV(v)], grid, auto_refresh,
              "idle", {sk})
    /\ edits' = edits + 1
    /\ UNCHANGED << saves, normVars >>

\* The operator types v into row i of the LDL-c grid.
EditGrid(i, v) ==
    /\ pc = "idle"
    /\ edits < MaxEdits
    /\ grid.live
    /\ grid.out[i] # v
    /\ Script("run", session, [grid EXCEPT !.out[i] = v], auto_refresh,
              "idle", LdlcSessionKeys)
    /\ edits' = edits + 1
    /\ UNCHANGED << saves, normVars >>

\* The operator flips the "Auto-refresh 30s" checkbox.
ToggleAuto ==
    /\ pc = "idle"
    /\ Script("run", session, grid, ~auto_refresh, "idle", {})
    /\ UNCHANGED << edits, saves, normVars >>

\* "Reload now", lines 365-367: the run loads, clears the cache and reruns.
PressReload ==
    /\ pc = "idle"
    /\ \E l1 \in CachedLoad(cache) :
           /\ data' = l1.data
           /\ loadFailed' = l1.failed
    /\ cache' = NoCache
    /\ pc' = "rerun"
    /\ op' = "reload"
    /\ pend' = PendBase
    /\ refreshedPending' = (refreshedPending /\ DOMAIN pend' # {})
    /\ saveRes' = "none"
    /\ submitted' = EmptyDict
    /\ sheetBefore' = << >>
    /\ UNCHANGED << sheet, session, wargs, grid, modified, sinceRefresh,
                    auto_refresh, warning, edits, saves, discarded, normVars >>

\* The run in which "Save to Google Sheets" is pressed, down to line 394.
PressSave ==
    /\ pc = "idle"
    /\ saves < MaxSaves
    /\ Script("press_save", session, grid, auto_refresh, "save", {})
    /\ saves' = saves + 1
    /\ UNCHANGED << edits, normVars >>

\* A Save block that drops the staged inputs when the save fails (a mutant
\* of SaveBlock).
SaveBlockDropsEdits(success) ==
    [session |-> IF success THEN session ELSE EmptyDict,
     modified |-> FALSE,
     clear |-> success]

\* Lines 403-407: what the Save block does with the result of
\* save_data_to_sheet: the session entries, the modified flag and whether the
\* cache is cleared.
SaveBlock(success) ==
    [session |-> session,
     modified |-> IF success THEN FALSE ELSE modified,
     clear |-> success]

\* Lines 399-407 and 418-420: the Save block and the end of the run.
SaveHandler ==
    /\ pc = "save"
    /\ \E new_data \in {collect_changes_into_dict(data, session)} :
       \E r \in {save_data_to_sheet(sheet, new_data, o) : o \in SaveOutcomes} :
       \E b \in {SaveBlock(r.ok)} :
               /\ sheet' = r.ws
               /\ cache' = IF r.cleared \/ b.clear THEN NoCache ELSE cache
               /\ modified' = b.modified
               /\ session' = b.session
               /\ submitted' = new_data
               /\ saveRes' = IF r.ok THEN "ok" ELSE "failed"
    /\ sheetBefore' = sheet
    /\ warning' = modified'
    /\ pc' = "idle"
    /\ op' = "save"
    /\ UNCHANGED << wargs, grid, sinceRefresh, auto_refresh, data,
                    loadFailed, edits, saves, pend, refreshedPending, discarded, normVars >>

\* The run in which "Reset (discard local edits)" is pressed, down to line 394.
PressReset ==
    /\ pc = "idle"
    /\ Script("press_reset", session, grid, auto_refresh, "reset", {})
    /\ UNCHANGED << edits, saves, normVars >>

\* Lines 408-416: the Reset block, which ends the run with a rerun.
ResetHandler ==
    /\ pc = "reset"
    /\ session' = [sk \in {k \in DOMAIN session :
                              k \notin InputKeys \cup LdlcSessionKeys} |-> session[sk]]
    /\ modified' = FALSE
    /\ cache' = NoCache
    /\ pc' = "rerun"
    /\ op' = "reset"
    /\ discarded' = pend
    /\ pend' = EmptyDict
    /\ refreshedPending' = FALSE
    /\ UNCHANGED << sheet, wargs, grid, sinceRefresh, auto_refresh, warning,
                    data, loadFailed, saveRes, submitted, sheetBefore, edits, saves,
                    normVars >>

\* The clock advances.
Tick ==
    /\ pc = "idle"
    /\ sinceRefresh' = Older(sinceRefresh)
    /\ cache' = IF cache.full THEN [cache EXCEPT !.age = Older(cache.age)] ELSE cache
    /\ UNCHANGED << sheet, session, wargs, grid, modified, auto_refresh, warning, data, pc, op, loadFailed, saveRes, submitted,
                    sheetBefore, edits, saves, pend, refreshedPending, discarded,
                    normVars >>

Next ==
    \/ Rerun
    \/ \E sk \in EditKeys : \E v \in EditValues : EditNumber(sk, v)
    \/ \E i \in GridRows : \E v \in GridValues : EditGrid(i, v)
    \/ ToggleAuto
    \/ PressReload
    \/ PressSave
    \/ SaveHandler
    \/ PressReset
    \/ ResetHandler
    \/ Tick

Spec == Init /\ [][Next]_vars

\* ---------------------------------------------- normalisation on its own
\* NormSpec applies the normalisation of render_demographics_section (four
\* values, one decimal) and of render_ldlc_matrix (six values, two decimals)
\* to every group of raw values up to a bound.
mainVars ==
    << sheet, cache, session, wargs, grid, modified, sinceRefresh, auto_refresh,
       warning, data, pc, op, loadFailed, saveRes, submitted, sheetBefore, edits,
       saves, pend, refreshedPending, discarded >>

NormInit ==
    /\ sheet = << >>
    /\ cache = NoCache
    /\ session = EmptyDict
    /\ wargs = [k \in {} |-> 0]
    /\ grid = NoGrid
    /\ modified = FALSE
    /\ sinceRefresh = AgeCap
    /\ auto_refresh = TRUE
    /\ warning = FALSE
    /\ data = EmptyDict
    /\ pc = "norm"
    /\ op = "start"
    /\ loadFailed = FALSE
    /\ saveRes = "none"
    /\ submitted = EmptyDict
    /\ sheetBefore = << >>
    /\ edits = 0
    /\ saves = 0
    /\ pend = EmptyDict
    /\ refreshedPending = FALSE
    /\ discarded = EmptyDict
    /\ normed = << >>
    /\ \/ grp = "demo" /\ raw \in [1..4 -> 0..MaxRaw4]
       \/ grp = "ldlc" /\ raw \in [1..6 -> 0..MaxRaw6]

\* Lines 229-232: df["Percent"] = (df["Percent"] / total * 100).round(1),
\* the result in tenths.
NormalizeDemographics ==
    /\ grp = "demo"
    /\ normed = << >>
    /\ normed' = NormalizeColumn(raw, 1, 10)
    /\ UNCHANGED << mainVars, grp, raw >>

\* Lines 309-311: edited["Value"] = (edited["Value"] / total * 100).round(2),
\* the result in hundredths.
NormalizeLdlc ==
    /\ grp = "ldlc"
    /\ normed = << >>
    /\ normed' = NormalizeColumn(raw, 1, 100)
    /\ UNCHANGED << mainVars, grp, raw >>

NormNext == NormalizeDemographics \/ NormalizeLdlc

NormSpec == NormInit /\ [][NormNext]_vars

\* ------------------------------------------------------------- the claims
\* The persisted key/value table as a load reads it.
Persisted == RowsToDict(sheet)

\* d2 agrees with d on every key of d whose value is a number.
Agrees(d2, d) ==
    \A k \in DOMAIN d : d[k].t \in {"int", "float"} => k \in DOMAIN d2 /\ d2[k] = d[k]

\* The value a render of the snapshot d stages under sk when the operator
\* has entered nothing.
FreshStaged(d, sk) ==
    IF sk \in InputKeys THEN IntV(IntOfFloat(Get(d, DataKeyOf(sk))))
    ELSE FloatV(NormalizeColumn(LdlcMatrix(d), 100, 100)[LdlcRowOf(sk)])

\* A step that is a run of main() from the top.
RunStep == op' \in {"run", "press_save", "press_reset", "reload"}

\* C1: a save is all-or-nothing: when save_data_to_sheet returns False the
\* worksheet is what it was before the call, and when it returns True the
\* worksheet is the header row followed by one row per key of the dataset.
C1_SaveAllOrNothing ==
    op = "save" =>
        /\ saveRes = "failed" => sheet = sheetBefore
        /\ saveRes = "ok" =>
               /\ Len(sheet) = 1 + Cardinality(DOMAIN submitted)
               /\ sheet[1] = HeaderRow
               /\ \A k \in DOMAIN submitted :
                      \E i \in 2..Len(sheet) :
                          sheet[i] = [key |-> k, val |-> PyStr(submitted[k])]

C3_LoadFallsBack ==
    /\ loadFailed => data = DEFAULT_DATA
    /\ op # "start" => DefaultKeys \subseteq DOMAIN data
    /\ cache.full => DefaultKeys \subseteq DOMAIN cache.data

\* C3 witness: a load failed against a worksheet that holds rows, and the
\* run got the defaults, not the rows.
C3_Witness ==
    /\ loadFailed
    /\ Len(sheet) >= 2
    /\ data = DEFAULT_DATA
    /\ load_data_from_sheet(sheet, "ok") # DEFAULT_DATA

\* C4: a Save in a session in which the operator has edited nothing hands
\* save_data_to_sheet a dataset equal to the snapshot: the same keys and, for
\* every key, an equal value.
C4_NoEditSaveIsNoOp ==
    (op = "save" /\ edits = 0) =>
        /\ DOMAIN submitted = DOMAIN data
        /\ \A k \in DOMAIN data : PyEq(submitted[k], data[k])

\* The metric groups, the session keys of their staged raw values and their
\* rounding tolerance in hundredths.
Groups ==
    { [keys |-> {"demo_black", "demo_hispanic", "demo_white", "demo_other"}, tol |-> 10],
      [keys |-> {"age_55_plus", "age_35_54", "age_18_34"}, tol |-> 10],
      [keys |-> {LdlcKeys[i] : i \in 1..Len(LdlcKeys)}, tol |-> 1] }

RECURSIVE SumOver(_, _)
SumOver(f, ks) ==
    IF ks = {} THEN 0
    ELSE LET k == CHOOSE x \in ks : TRUE
         IN  Hundredths(f[k]) + SumOver(f, ks \ {k})

Abs(x) == IF x < 0 THEN -x ELSE x

\* C5: every dataset Save persists satisfies the group-sum rule: for each
\* group whose staged raw values have a positive sum, the values written to
\* the worksheet sum to 100 within the group's rounding tolerance.
C5_PersistedGroupsSumTo100 ==
    (op = "save" /\ saveRes = "ok") =>
        \A g \in Groups :
            LET staged == [k \in g.keys |-> session[SessionKey(k)]]
            IN  SumOver(staged, g.keys) > 0 =>
                    Abs(SumOver(Persisted, g.keys) - Target * 100) <= g.tol

\* The normalised group of NormSpec is off the target by this many units of
\* its precision.
NormOff == Abs(SumSeq(normed) - Target * (IF grp = "demo" THEN 10 ELSE 100))

NormApplies == normed # << >> /\ SumSeq(raw) > 0 /\ SumSeq(raw) # Target

\* C6: a group of non-negative raw values whose sum is positive and not 100
\* normalises to values whose sum is within one precision unit of 100.
C6_WithinOneUnit == NormApplies => NormOff <= 1

\* C6 as amended: the sum is within half a precision unit per member of the
\* group: two units for the four demographic values, three for the six LDL-c
\* values.
C6_WithinHalfUnitPerMember == NormApplies => 2 * NormOff <= Len(raw)

\* C6 witness: a normalised demographic group two tenths off 100.
C6_Witness == NormApplies /\ grp = "demo" /\ NormOff = 2

\* C7: an automatic reload never discards unsaved edits: once an
\* auto-refresh has run while an edit was staged, a Save that finds the
\* staged value still in the session state persists it for its metric.
C7_SavePersistsStagedAfterRefresh ==
    (op = "save" /\ saveRes = "ok" /\ refreshedPending) =>
        \A sk \in DOMAIN pend :
            (sk \in DOMAIN session /\ session[sk] = pend[sk]) =>
                /\ MetricOf(sk) \in DOMAIN Persisted
                /\ PyEq(Persisted[MetricOf(sk)], pend[sk])

\* C8: after a render pass, a staged input that differs from the snapshot's
\* value for its metric means the modified flag is set and the warning shown.
C8_DifferenceIsSignalled ==
    (pc = "idle" /\ op = "run") =>
        ((\E sk \in DOMAIN session : ~PyEq(session[sk], Get(data, MetricOf(sk))))
            => modified /\ warning)

\* C9: the first load after a successful save is not served from the cache
\* and returns a dataset that agrees with the saved one on every numeric key.
\* (Stated of the runs without an auto-refresh, whose snapshot is that load's
\* result.)
C9_LoadAfterSaveAgrees ==
    [][(op = "save" /\ saveRes = "ok" /\ RunStep
            /\ ~(auto_refresh' /\ sinceRefresh > RefreshAfter)) =>
           /\ ~CacheHit(cache)
           /\ Agrees(data', submitted)]_vars

\* C9 as amended: that load is not served from the cache; when its backend
\* calls succeed it returns a dataset that agrees with the saved one on every
\* numeric key, and when they fail it returns DEFAULT_DATA.
C9_LoadAfterSaveAgreesIfRead ==
    [][(op = "save" /\ saveRes = "ok" /\ RunStep
            /\ ~(auto_refresh' /\ sinceRefresh > RefreshAfter)) =>
           /\ ~CacheHit(cache)
           /\ ~loadFailed' => Agrees(data', submitted)
           /\ loadFailed' => data' = DEFAULT_DATA]_vars

\* C9 witness: the run after a successful save read the worksheet and got the
\* saved values, which are not the defaults.
C9_Witness ==
    /\ op = "run"
    /\ DOMAIN submitted # {}
    /\ ~loadFailed
    /\ Agrees(data, submitted)
    /\ data # DEFAULT_DATA
    /\ \E k \in DOMAIN submitted : submitted[k].t = "float"

\* C10: Reset discards all pending edits and leaves the backend alone: after
\* the Reset block the session state holds no inp_* entry and no
\* hcp_educated_input, modified is False, the cache is cleared and the
\* worksheet is unchanged; and a Save pressed before a new input is staged
\* persists none of the discarded values (unless the snapshot stages it).
C10_ResetDiscardsEdits ==
    [][/\ op' = "reset" =>
              /\ DOMAIN session' \cap (InputKeys \cup LdlcSessionKeys) = {}
              /\ ~modified'
              /\ cache' = NoCache
              /\ sheet' = sheet
       /\ (op' = "save" /\ saveRes' = "ok") =>
              \A sk \in DOMAIN discarded' :
                  PyEq(submitted'[MetricOf(sk)], discarded'[sk]) =>
                      PyEq(discarded'[sk], FreshStaged(data', sk))]_vars

====
